---- MODULE Spec2Model ----
(***************************************************************************)
(* Model of the tiling layout tree of layout/tree.go: split containers     *)
(* (hsplit, vsplit), leaves holding a client, and the tree root handle.    *)
(*                                                                         *)
(* Proportions are Go float64 values.  They are modelled bit-exactly: a    *)
(* float is a sign and a magnitude, the magnitude a fixed-point number of  *)
(* six 15-bit limbs (least significant first) in units of 2^-75, and every *)
(* arithmetic operation rounds its exact result to 53 significant bits,    *)
(* ties to even, as IEEE 754 binary64 does.  Every float64 in              *)
(* [2^-23, 2^15) is exactly representable this way.                        *)
(***************************************************************************)
EXTENDS Integers, Sequences, FiniteSets, TLC

(***************************************************************************)
(* Bounds of the model.                                                    *)
(***************************************************************************)
\* number of leaf objects (and of clients) the caller works with
MaxLeaves == 3
\* largest width and height of a target rectangle passed to place
MaxDim == 3
\* largest number of children the caller gives to one container
MaxChildren == 3
\* largest width of the one-pixel-high targets the caller of SpecLayout passes
MaxWidth == 8
\* largest number of children the caller of SpecShares gives to the container
MaxShares == 4

(***************************************************************************)
(* float64 arithmetic.                                                     *)
(***************************************************************************)
Base == 2^15
Limbs == 1..6

ZeroMag == [i \in Limbs |-> 0]
\* the magnitude of the integer k, 0 <= k < 2^15
IntMag(k) == [i \in Limbs |-> IF i = 6 THEN k ELSE 0]
\* the magnitude 2^n * 2^-75
Pow2Mag(n) == [i \in Limbs |-> IF i = (n \div 15) + 1 THEN 2^(n % 15) ELSE 0]

RECURSIVE AddFrom(_, _, _, _)
AddFrom(a, b, i, c) ==
  IF i > 6 THEN <<>>
  ELSE LET s == a[i] + b[i] + c
       IN  <<s % Base>> \o AddFrom(a, b, i + 1, s \div Base)
AddMag(a, b) == AddFrom(a, b, 1, 0)

RECURSIVE SubFrom(_, _, _, _)
SubFrom(a, b, i, c) ==
  IF i > 6 THEN <<>>
  ELSE LET s == a[i] - b[i] - c
       IN  <<s % Base>> \o SubFrom(a, b, i + 1, IF s < 0 THEN 1 ELSE 0)
\* a - b for a >= b
SubMag(a, b) == SubFrom(a, b, 1, 0)

RECURSIVE CmpFrom(_, _, _)
CmpFrom(a, b, i) ==
  IF i = 0 THEN 0
  ELSE IF a[i] > b[i] THEN 1
  ELSE IF a[i] < b[i] THEN -1
  ELSE CmpFrom(a, b, i - 1)
\* -1, 0 or 1 as a < b, a = b or a > b
CmpMag(a, b) == CmpFrom(a, b, 6)

RECURSIVE MulFrom(_, _, _, _)
MulFrom(a, k, i, c) ==
  IF i > 6 THEN <<>>
  ELSE LET s == a[i] * k + c
       IN  <<s % Base>> \o MulFrom(a, k, i + 1, s \div Base)
\* a * k for 0 <= k < 2^15
MulMag(a, k) == MulFrom(a, k, 1, 0)

RECURSIVE DivFrom(_, _, _, _)
DivFrom(a, k, i, r) ==
  IF i = 0 THEN <<<<>>, r>>
  ELSE LET cur  == r * Base + a[i]
           rest == DivFrom(a, k, i - 1, cur % k)
       IN  <<rest[1] \o <<cur \div k>>, rest[2]>>
\* <<a div k, a mod k>> for 0 < k < 2^15
DivMag(a, k) == DivFrom(a, k, 6, 0)

\* number of significant bits of 0 <= x < 2^15
RECURSIVE BitLenLimb(_)
BitLenLimb(x) == IF x = 0 THEN 0 ELSE 1 + BitLenLimb(x \div 2)
\* index of the most significant limb that is not 0, or 0
RECURSIVE TopLimbFrom(_, _)
TopLimbFrom(a, i) == IF i = 0 \/ a[i] # 0 THEN i ELSE TopLimbFrom(a, i - 1)
TopLimb(a) == TopLimbFrom(a, 6)
\* number of significant bits of a
BitLen(a) == LET t == TopLimb(a)
             IN  IF t = 0 THEN 0 ELSE (t - 1) * 15 + BitLenLimb(a[t])

\* The exact value a (plus a positive amount below one unit when sticky) rounded
\* to 53 significant bits, ties to even.
Round53(a, sticky) ==
  LET bl == BitLen(a)
  IN  IF bl <= 53 THEN a
      ELSE LET d     == bl - 53
               ld    == d \div 15
               bd    == d % 15
               rem   == [i \in Limbs |-> IF i <= ld THEN a[i]
                                         ELSE IF i = ld + 1 THEN a[i] % (2^bd)
                                         ELSE 0]
               floor == [i \in Limbs |-> IF i <= ld THEN 0
                                         ELSE IF i = ld + 1 THEN a[i] - (a[i] % (2^bd))
                                         ELSE a[i]]
               cmp   == CmpMag(rem, Pow2Mag(d - 1))
               odd   == ((a[ld + 1] \div (2^bd)) % 2) = 1
               up    == cmp > 0 \/ (cmp = 0 /\ (sticky \/ odd))
           IN  IF up THEN AddMag(floor, Pow2Mag(d)) ELSE floor

Float(neg, mag) == [neg |-> neg /\ mag # ZeroMag, mag |-> mag]
\* the float64 of the integer k, |k| < 2^15
FloatOfInt(k) == IF k < 0 THEN Float(TRUE, IntMag(-k)) ELSE Float(FALSE, IntMag(k))
FNeg(x) == Float(~x.neg, x.mag)
FAbs(x) == Float(FALSE, x.mag)
\* x + y
FAdd(x, y) ==
  IF x.neg = y.neg THEN Float(x.neg, Round53(AddMag(x.mag, y.mag), FALSE))
  ELSE IF CmpMag(x.mag, y.mag) >= 0
       THEN Float(x.neg, Round53(SubMag(x.mag, y.mag), FALSE))
       ELSE Float(y.neg, Round53(SubMag(y.mag, x.mag), FALSE))
\* x - y
FSub(x, y) == FAdd(x, FNeg(y))
\* x / float64(k), k > 0.  A quotient of 54 bits or more holds the rounding
\* bit, and the remainder only breaks ties; in a quotient of 53 bits or fewer
\* the remainder is what is rounded, to the nearest unit, ties to even (for
\* 53 bits, quotients from 2^-23 on, that is the float64 result).
FDivInt(x, k) ==
  LET qr == DivMag(x.mag, k)
      q  == qr[1]
      r  == qr[2]
  IN  IF BitLen(q) >= 54 THEN Float(x.neg, Round53(q, r # 0))
      ELSE IF 2 * r > k \/ (2 * r = k /\ q[1] % 2 = 1)
           THEN Float(x.neg, AddMag(q, Pow2Mag(0)))
           ELSE Float(x.neg, q)
\* float64(k) * x, k >= 0
FMulInt(x, k) == Float(x.neg, Round53(MulMag(x.mag, k), FALSE))
\* x < y
FLess(x, y) ==
  IF x.neg /\ ~y.neg THEN TRUE
  ELSE IF ~x.neg /\ y.neg THEN FALSE
  ELSE IF x.neg THEN CmpMag(x.mag, y.mag) > 0
  ELSE CmpMag(x.mag, y.mag) < 0

\* const fullPortion proportion = 1.0
fullPortion == FloatOfInt(1)
\* const epsilon = 0.0001, as the float64 0x1.a36e2eb1c432dp-14
epsilon == Float(FALSE, <<23040, 28940, 5976, 9070, 3, 0>>)
\* the zero value of a proportion field
zeroProp == FloatOfInt(0)

\* misc.Round: the nearest integer, halves away from zero
Round(x) ==
  LET n == x.mag[6] + (IF x.mag[5] >= 2^14 THEN 1 ELSE 0)
  IN  IF x.neg THEN -n ELSE n

\* portion adding where it should multiply
portionSum(p, size) == Round(FAdd(FloatOfInt(size), p))

\* proportion.portion: the share p of size pixels
portion(p, size) == Round(FMulInt(p, size))

\* proportion.equal
equal(p1, p2) == FLess(FAbs(FSub(p1, p2)), epsilon)

(***************************************************************************)
(* Objects.  A node is identified by its kind and a number; the kind of a  *)
(* node never changes.  The caller works with one hsplit, one vsplit and   *)
(* MaxLeaves leaves, and MaxLeaves clients exist.  A second hsplit exists  *)
(* for the caller that nests one hsplit in another.                        *)
(***************************************************************************)
Nil == <<"nil", 0>>
HSplits == {<<"hsplit", 1>>}
VSplits == {<<"vsplit", 1>>}
Splits == HSplits \cup VSplits
Leaves == {<<"leaf", i>> : i \in 1..MaxLeaves}
Nodes == Splits \cup Leaves
\* the hsplit that is nested in the first
InnerHSplit == <<"hsplit", 2>>
\* every container and every node that exists
Containers == Splits \cup {InnerHSplit}
Objects == Nodes \cup {InnerHSplit}
Clients == 1..MaxLeaves
\* the rectangle of an operation or call that carries none
NoRect == <<0, 0, 0, 0>>
\* the target rectangles the caller passes to place: width and height from 1,
\* together at most MaxDim + 1, at an origin other than (0, 0)
Rects == {r \in {<<1, 2, w, h>> : w \in 1..MaxDim, h \in 1..MaxDim} :
            r[3] + r[4] <= MaxDim + 1}

\* the target rectangles of the caller of SpecLayout: every width up to
\* MaxWidth at height 1, and the 100x50 rectangle
LayoutRects == {<<0, 0, w, 1>> : w \in 1..MaxWidth} \cup {<<0, 0, 100, 50>>}

VARIABLES
  removed,   \* the nodes taken out of a container: destroyed, never used again
  root,      \* tree.child
  parent,    \* split.parent, leaf.parent
  children,  \* split.children
  prop,      \* split.prop, leaf.prop
  client,    \* leaf.client
  calls,     \* the calls made on clients by the last operation, in order
  last,      \* the last operation and its arguments
  snap,      \* a container's children and proportions before the last addNode
  err        \* "none", or the panic that ended the program

vars == <<removed, root, parent, children, prop, client, calls, last, snap, err>>

IsLeaf(n) == n[1] = "leaf"
IsHSplit(n) == n[1] = "hsplit"
IsVSplit(n) == n[1] = "vsplit"
IsSplit(n) == IsHSplit(n) \/ IsVSplit(n)

\* the elements of a sequence
Range(s) == {s[i] : i \in 1..Len(s)}

(***************************************************************************)
(* Traversal and lookup.                                                   *)
(***************************************************************************)
\* split.VisitLeafNodes and leaf.VisitLeafNodes, for a callback f that returns
\* false exactly on the leaves of stop: the leaves f was called on, in order,
\* and the value returned.
RECURSIVE VisitLeafNodes(_, _)
RECURSIVE VisitChildren(_, _, _)
RECURSIVE VisitChildrenNoStop(_, _, _)
\* the loop of split.VisitLeafNodes going on after a child returned false
VisitChildrenNoStop(kids, i, stop) ==
  IF i > Len(kids) THEN [visited |-> <<>>, cont |-> TRUE]
  ELSE LET r == VisitLeafNodes(kids[i], stop)
           rest == VisitChildrenNoStop(kids, i + 1, stop)
       IN  [visited |-> r.visited \o rest.visited, cont |-> rest.cont]
\* VisitLeafNodes with the leaf returning true whatever f returned
VisitLeafNodesIgnoring(n, stop) ==
  IF IsLeaf(n) THEN [visited |-> <<n>>, cont |-> TRUE]
  ELSE VisitChildren(children[n], 1, stop)
VisitChildren(kids, i, stop) ==
  IF i > Len(kids) THEN [visited |-> <<>>, cont |-> TRUE]
  ELSE LET r == VisitLeafNodes(kids[i], stop)
       IN  IF ~r.cont THEN r
           ELSE LET rest == VisitChildren(kids, i + 1, stop)
                IN  [visited |-> r.visited \o rest.visited, cont |-> rest.cont]
VisitLeafNodes(n, stop) ==
  IF IsLeaf(n) THEN [visited |-> <<n>>, cont |-> n \notin stop]
  ELSE VisitChildren(children[n], 1, stop)

\* tree.findLeaf: the callback assigns lf on every visited leaf that holds c
\* and returns false there; the value of VisitLeafNodes is not used, and lf is
\* what the last assignment left, nil when there was none
findLeaf(c) ==
  IF root = Nil THEN Nil
  ELSE LET r == VisitLeafNodes(root, {lf \in Leaves : client[lf] = c})
           hits == SelectSeq(r.visited, LAMBDA visit : client[visit] = c)
       IN  IF hits = <<>> THEN Nil ELSE hits[Len(hits)]

(***************************************************************************)
(* Validity check and placement.                                           *)
(***************************************************************************)
\* leaf.ValidDims
LeafValidDims(w, h, minw, minh, maxw, maxh) ==
  w >= minw /\ h >= minh /\ w <= maxw /\ h <= maxh

\* hsplit.ValidDims, vsplit.ValidDims, leaf.ValidDims
RECURSIVE ValidDims(_, _, _, _, _, _, _)
RECURSIVE ValidChildren(_, _, _, _, _, _, _, _)
ValidChildren(n, i, w, h, minw, minh, maxw, maxh) ==
  IF i > Len(children[n]) THEN TRUE
  ELSE LET child == children[n][i]
           cw == IF IsHSplit(n) THEN portion(prop[child], w) ELSE w
           ch == IF IsVSplit(n) THEN portion(prop[child], h) ELSE h
       IN  IF ~ValidDims(child, cw, ch, minw, minh, maxw, maxh) THEN FALSE
           ELSE ValidChildren(n, i + 1, w, h, minw, minh, maxw, maxh)
ValidDims(n, w, h, minw, minh, maxw, maxh) ==
  IF IsLeaf(n) THEN LeafValidDims(w, h, minw, minh, maxw, maxh)
  ELSE ValidChildren(n, 1, w, h, minw, minh, maxw, maxh)

FrameTileCall(c) == [op |-> "FrameTile", c |-> c, rect |-> NoRect]
MoveResizeCall(c, x, y, w, h) == [op |-> "MoveResize", c |-> c, rect |-> <<x, y, w, h>>]

\* leaf.MoveResize moving the client before it frames it
LeafMoveResizeThenFrame(cl, lf, x, y, width, height) ==
  <<MoveResizeCall(cl[lf], x, y, width, height), FrameTileCall(cl[lf])>>

\* leaf.MoveResize: the calls it makes on the leaf's client, cl being the
\* client field of every leaf
LeafMoveResize(cl, lf, x, y, width, height) ==
  <<FrameTileCall(cl[lf]), MoveResizeCall(cl[lf], x, y, width, height)>>

\* hsplit.MoveResize, vsplit.MoveResize, leaf.MoveResize: the calls made on
\* clients, in order
RECURSIVE MoveResize(_, _, _, _, _, _)
RECURSIVE HMoveChildren(_, _, _, _, _, _, _)
RECURSIVE VMoveChildren(_, _, _, _, _, _, _)
RECURSIVE HMoveChildrenSameX(_, _, _, _, _, _, _)
RECURSIVE HMoveChildrenByHeight(_, _, _, _, _, _, _)
\* the loop of hsplit.MoveResize taking the shares of the height
HMoveChildrenByHeight(cl, n, i, nextx, y, width, height) ==
  IF i > Len(children[n]) THEN <<>>
  ELSE LET child == children[n][i]
           w == portion(prop[child], height)
       IN  MoveResize(cl, child, nextx, y, w, height)
             \o HMoveChildrenByHeight(cl, n, i + 1, nextx + w, y, width, height)
\* the loop of hsplit.MoveResize without nextx += w
HMoveChildrenSameX(cl, n, i, nextx, y, width, height) ==
  IF i > Len(children[n]) THEN <<>>
  ELSE LET child == children[n][i]
           w == portion(prop[child], width)
       IN  MoveResize(cl, child, nextx, y, w, height)
             \o HMoveChildrenSameX(cl, n, i + 1, nextx, y, width, height)
HMoveChildren(cl, n, i, nextx, y, width, height) ==
  IF i > Len(children[n]) THEN <<>>
  ELSE LET child == children[n][i]
           w == portion(prop[child], width)
       IN  MoveResize(cl, child, nextx, y, w, height)
             \o HMoveChildren(cl, n, i + 1, nextx + w, y, width, height)
VMoveChildren(cl, n, i, x, nexty, width, height) ==
  IF i > Len(children[n]) THEN <<>>
  ELSE LET child == children[n][i]
           h == portion(prop[child], height)
       IN  MoveResize(cl, child, x, nexty, width, h)
             \o VMoveChildren(cl, n, i + 1, x, nexty + h, width, height)
MoveResize(cl, n, x, y, width, height) ==
  IF IsLeaf(n) THEN LeafMoveResize(cl, n, x, y, width, height)
  ELSE IF IsHSplit(n) THEN HMoveChildren(cl, n, 1, x, y, width, height)
  ELSE VMoveChildren(cl, n, 1, x, y, width, height)

\* tree.place without the validity check
placeUnchecked(cl, rect) ==
  IF root = Nil THEN [placed |-> FALSE, calls |-> <<>>]
  ELSE [placed |-> TRUE,
        calls |-> MoveResize(cl, root, rect[1], rect[2], rect[3], rect[4])]

\* tree.place on the tree whose leaves hold the clients cl: whether it went on
\* to MoveResize, and the calls made on clients
place(cl, rect) ==
  IF root = Nil THEN [placed |-> FALSE, calls |-> <<>>]
  ELSE IF ~ValidDims(root, rect[3], rect[4], 1, 1, rect[3], rect[4])
       THEN [placed |-> FALSE, calls |-> <<>>]
  ELSE [placed |-> TRUE,
        calls |-> MoveResize(cl, root, rect[1], rect[2], rect[3], rect[4])]

(***************************************************************************)
(* Split container: insertion, removal and the sum-to-one check.           *)
(***************************************************************************)
\* split.checkPortions, the loop: the float64 sum of the proportions p of kids
RECURSIVE SumPortions(_, _, _, _)
SumPortions(kids, p, i, sum) ==
  IF i > Len(kids) THEN sum
  ELSE SumPortions(kids, p, i + 1, FAdd(sum, p[kids[i]]))

\* split.checkPortions: TRUE when it returns, FALSE when it panics
checkPortions(kids, p) ==
  IF Len(kids) = 0 THEN TRUE
  ELSE equal(SumPortions(kids, p, 1, zeroProp), fullPortion)

\* NewProp dividing by one more than the number of children after the insertion
NewPropByNextCount(k) == FDivInt(fullPortion, k + 2)

\* split.addNode: the proportion of the node added to k children
NewProp(k) == FDivInt(fullPortion, k + 1)

\* Chop dividing by the number of children after the insertion
ChopByNewCount(newProp, k) == FDivInt(newProp, k + 1)

\* split.addNode: what every one of the k > 0 existing children gives up
Chop(newProp, k) == FDivInt(newProp, k)

\* AddNodeProps leaving the proportions of the children as they are
AddNodePropsNoChop(kids, p, n) == [p EXCEPT ![n] = NewProp(Len(kids))]

\* split.addNode: the proportions after the node n was added to kids
AddNodeProps(kids, p, n) ==
  LET newProp == NewProp(Len(kids))
      p1 == IF Len(kids) > 0
            THEN [m \in DOMAIN p |-> IF m \in Range(kids)
                                     THEN FSub(p[m], Chop(newProp, Len(kids)))
                                     ELSE p[m]]
            ELSE p
  IN  [p1 EXCEPT ![n] = newProp]

\* split.addNode: the child sequence after n was added
AddNodeChildren(kids, n, atEnd) ==
  IF atEnd THEN Append(kids, n) ELSE <<n>> \o kids

\* RemoveNodeChildren dropping the last child when n is not among them
RemoveNodeChildrenOrLast(kids, n) ==
  IF n \in Range(kids) THEN SelectSeq(kids, LAMBDA m : m # n)
  ELSE SubSeq(kids, 1, Len(kids) - 1)

\* split.removeNode: the child sequence without n (n occurs at most once)
RemoveNodeChildren(kids, n) == SelectSeq(kids, LAMBDA m : m # n)

\* Leftovers dividing by the number of children before the removal
LeftoversByOldCount(pn, k) == FDivInt(pn, k + 1)

\* split.removeNode: what every one of the k > 0 remaining children receives
Leftovers(pn, k) == FDivInt(pn, k)

\* RemoveNodeProps taking the proportion away from the removed node
RemoveNodePropsClearing(kids, p, n) ==
  [m \in DOMAIN p |-> IF m = n THEN zeroProp
                      ELSE IF m \in Range(kids)
                           THEN FAdd(p[m], Leftovers(p[n], Len(kids)))
                           ELSE p[m]]

\* split.removeNode: the proportions after n left and kids remain
RemoveNodeProps(kids, p, n) ==
  IF Len(kids) > 0
  THEN [m \in DOMAIN p |-> IF m \in Range(kids)
                           THEN FAdd(p[m], Leftovers(p[n], Len(kids)))
                           ELSE p[m]]
  ELSE p

(***************************************************************************)
(* The state after construction: newTree(), and the node objects the       *)
(* caller works with, made by newHSplit, newVSplit and newLeaf.  A         *)
(* constructor touches nothing but the object it makes, so when the caller *)
(* makes an object cannot be observed.  Leaf i is made for client i, the   *)
(* containers are made without a parent.                                   *)
(***************************************************************************)
NoSnap == [s |-> Nil, n |-> Nil, kids |-> <<>>, props |-> <<>>, undone |-> FALSE]
\* the record of an operation: the container it was called on, its node
\* argument, the atEnd flag, the target rectangle, the leaf returned, and
\* whether it took effect
Op(op, node, arg, atEnd, rect, res, ok) ==
  [op |-> op, node |-> node, arg |-> arg, atEnd |-> atEnd, rect |-> rect,
   res |-> res, ok |-> ok]

\* newTree
newTree == Nil
\* newHSplit(p), newVSplit(p): the fields of the container made
newSplit(p) == [parent |-> p, children |-> <<>>, prop |-> zeroProp]
\* newLeaf(p, c): the fields of the leaf made
newLeaf(p, c) == [parent |-> p, client |-> c, prop |-> zeroProp]

\* the parent argument the caller makes leaf i with: no parent, the hsplit or
\* the vsplit, by turns
ParentArg(i) == <<Nil, <<"hsplit", 1>>, <<"vsplit", 1>>>>[((i - 1) % 3) + 1]

Init ==
  /\ removed = {}
  /\ root = newTree
  /\ LET obj == [n \in Objects |-> IF IsLeaf(n) THEN newLeaf(ParentArg(n[2]), n[2])
                                   ELSE newSplit(Nil)]
     IN  /\ parent = [n \in Objects |-> obj[n].parent]
         /\ children = [s \in Containers |-> obj[s].children]
         /\ prop = [n \in Objects |-> obj[n].prop]
         /\ client = [lf \in Leaves |-> obj[lf].client]
  /\ calls = <<>>
  /\ last = Op("newTree", Nil, Nil, FALSE, NoRect, Nil, TRUE)
  /\ snap = NoSnap
  /\ err = "none"

\* The state after construction when the caller may give one client to
\* several leaves: newLeaf takes any client.
InitFind ==
  /\ removed = {}
  /\ root = newTree
  /\ \E cs \in [Leaves -> Clients] :
       LET obj == [n \in Objects |-> IF IsLeaf(n) THEN newLeaf(ParentArg(n[2]), cs[n])
                                     ELSE newSplit(Nil)]
       IN  /\ parent = [n \in Objects |-> obj[n].parent]
           /\ children = [s \in Containers |-> obj[s].children]
           /\ prop = [n \in Objects |-> obj[n].prop]
           /\ client = [lf \in Leaves |-> obj[lf].client]
  /\ calls = <<>>
  /\ last = Op("newTree", Nil, Nil, FALSE, NoRect, Nil, TRUE)
  /\ snap = NoSnap
  /\ err = "none"

\* the nodes below n, n included
RECURSIVE Subtree(_)
Subtree(n) ==
  IF IsLeaf(n) THEN {n}
  ELSE {n} \cup UNION {Subtree(children[n][i]) : i \in 1..Len(children[n])}

\* n is a child of some container
Attached(n) == \E s \in Containers : n \in Range(children[s])

(***************************************************************************)
(* Operations.  The caller keeps the structure a tree and builds it from   *)
(* the root down: the root is set once, to the hsplit or to a leaf (the    *)
(* vsplit takes part below the hsplit), a node is inserted in at most one  *)
(* place and only into a container of the tree, and a node taken out of    *)
(* its container is destroyed: the caller does not use it again.  The      *)
(* leaves are interchangeable, so the caller takes them in the order they  *)
(* were made.                                                              *)
(***************************************************************************)
\* s is a container of the tree
InTree(s) == root # Nil /\ s \in Subtree(root)
\* n is, or was, part of the tree
Used(n) == Attached(n) \/ n \in removed \/ n = root
\* n is the next node the caller takes
Fresh(n) == /\ n \in Objects
            /\ ~Used(n)
            /\ IsLeaf(n) => \A m \in Leaves : m[2] < n[2] => Used(m)

\* t.setChild(n)
SetChild(n) ==
  /\ err = "none"
  /\ root = Nil
  /\ Fresh(n)
  /\ ~IsVSplit(n)
  /\ root' = n
  /\ calls' = <<>>
  /\ last' = Op("setChild", Nil, n, FALSE, NoRect, Nil, TRUE)
  /\ snap' = NoSnap
  /\ UNCHANGED <<removed, parent, children, prop, client, err>>

\* s.addNode(n, atEnd), by a caller that gives a container at most max children
AddNodeUpTo(s, n, atEnd, max) ==
  /\ err = "none"
  /\ InTree(s)
  /\ Fresh(n)
  /\ Len(children[s]) < max
  /\ LET kids == AddNodeChildren(children[s], n, atEnd)
         p    == AddNodeProps(children[s], prop, n)
     IN  /\ children' = [children EXCEPT ![s] = kids]
         /\ prop' = p
         /\ err' = IF checkPortions(kids, p) THEN "none" ELSE "portions"
  /\ calls' = <<>>
  /\ last' = Op("addNode", s, n, atEnd, NoRect, Nil, err' = "none")
  /\ snap' = [s |-> s, n |-> n, kids |-> children[s],
              props |-> [i \in 1..Len(children[s]) |-> prop[children[s][i]]],
              undone |-> FALSE]
  /\ UNCHANGED <<removed, root, parent, client>>

\* s.addNode(n, atEnd)
AddNode(s, n, atEnd) == AddNodeUpTo(s, n, atEnd, MaxChildren)

\* s.removeNode(n), n a child of s
RemoveNode(s, n) ==
  /\ err = "none"
  /\ InTree(s)
  /\ n \in Range(children[s])
  /\ removed' = removed \cup {n}
  /\ LET kids == RemoveNodeChildren(children[s], n)
         p    == RemoveNodeProps(kids, prop, n)
     IN  /\ children' = [children EXCEPT ![s] = kids]
         /\ prop' = p
         /\ err' = IF checkPortions(kids, p) THEN "none" ELSE "portions"
  /\ calls' = <<>>
  /\ last' = Op("removeNode", s, n, FALSE, NoRect, Nil, err' = "none")
  /\ snap' = IF last.op = "addNode" /\ snap.s = s /\ snap.n = n
             THEN [snap EXCEPT !.undone = TRUE]
             ELSE NoSnap
  /\ UNCHANGED <<root, parent, client>>

\* s.removeNode(n), n not a child of s: the loop removes nothing and the
\* call panics before any proportion is touched
RemoveNodeNotChild(s, n) ==
  /\ err = "none"
  /\ InTree(s)
  /\ n \notin Range(children[s])
  /\ children' = [children EXCEPT ![s] = RemoveNodeChildren(children[s], n)]
  /\ err' = "notchild"
  /\ calls' = <<>>
  /\ last' = Op("removeNode", s, n, FALSE, NoRect, Nil, FALSE)
  /\ snap' = NoSnap
  /\ UNCHANGED <<removed, root, parent, prop, client>>

\* n.SetProportion(p), n a node of the tree
SetProportion(n, p) ==
  /\ err = "none"
  /\ Attached(n)
  /\ prop' = [prop EXCEPT ![n] = p]
  /\ calls' = <<>>
  /\ last' = Op("SetProportion", Nil, n, FALSE, NoRect, Nil, TRUE)
  /\ snap' = NoSnap
  /\ UNCHANGED <<removed, root, parent, children, client, err>>

\* n.SetParent(p), called by the caller on a child n of the container p
SetParent(n, p) ==
  /\ err = "none"
  /\ InTree(p)
  /\ n \in Range(children[p])
  /\ parent' = [parent EXCEPT ![n] = p]
  /\ calls' = <<>>
  /\ last' = Op("SetParent", p, n, FALSE, NoRect, Nil, TRUE)
  /\ snap' = NoSnap
  /\ UNCHANGED <<removed, root, children, prop, client, err>>

\* t.place(rect)
Place(rect) ==
  /\ err = "none"
  /\ LET r == place(client, rect)
     IN  /\ calls' = r.calls
         /\ last' = Op("place", Nil, Nil, FALSE, rect, Nil, r.placed)
  /\ snap' = NoSnap
  /\ UNCHANGED <<removed, root, parent, children, prop, client, err>>

\* switchClients assigning one field after the other
switchClientsInTurn(c1, c2) ==
  LET lf1 == findLeaf(c1)
      lf2 == findLeaf(c2)
  IN  IF lf1 = Nil \/ lf2 = Nil THEN client
      ELSE [lf \in Leaves |-> IF lf = lf1 \/ lf = lf2 THEN client[lf2]
                              ELSE client[lf]]

\* switchClients going on when only one of the clients was found
switchClientsFound(c1, c2) ==
  LET lf1 == findLeaf(c1)
      lf2 == findLeaf(c2)
  IN  [lf \in Leaves |-> IF lf = lf1 THEN c2
                         ELSE IF lf = lf2 THEN c1
                         ELSE client[lf]]

\* tree.switchClients: the client of every leaf afterwards
switchClients(c1, c2) ==
  LET lf1 == findLeaf(c1)
      lf2 == findLeaf(c2)
  IN  IF lf1 = Nil \/ lf2 = Nil THEN client
      ELSE [client EXCEPT ![lf1] = client[lf2], ![lf2] = client[lf1]]

\* t.switchClients(c1, c2)
SwitchClients(c1, c2) ==
  /\ err = "none"
  /\ client' = switchClients(c1, c2)
  /\ calls' = <<>>
  /\ last' = Op("switchClients", Nil, Nil, FALSE, NoRect, Nil,
                findLeaf(c1) # Nil /\ findLeaf(c2) # Nil)
  /\ snap' = NoSnap
  /\ UNCHANGED <<removed, root, parent, children, prop, err>>

\* t.findLeaf(c)
FindLeaf(c) ==
  /\ err = "none"
  /\ calls' = <<>>
  /\ last' = Op("findLeaf", Nil, Nil, FALSE, NoRect, findLeaf(c),
                findLeaf(c) # Nil)
  /\ snap' = NoSnap
  /\ UNCHANGED <<removed, root, parent, children, prop, client, err>>

Next ==
  \/ \E n \in Nodes : SetChild(n)
  \/ \E s \in Splits, n \in Nodes, atEnd \in BOOLEAN : AddNode(s, n, atEnd)
  \/ \E s \in Splits, n \in Nodes : RemoveNode(s, n)
  \/ \E rect \in Rects : Place(rect)
  \/ \E c1 \in Clients, c2 \in Clients : SwitchClients(c1, c2)
  \/ \E c \in Clients : FindLeaf(c)

Spec == Init /\ [][Next]_vars

\* The caller that builds the tree and switches clients, and asks for nothing
\* else: findLeaf and place change nothing in the tree, so the trees it
\* reaches are those of Spec.
NextSwitch ==
  \/ \E n \in Nodes : SetChild(n)
  \/ \E s \in Splits, n \in Nodes, atEnd \in BOOLEAN : AddNode(s, n, atEnd)
  \/ \E s \in Splits, n \in Nodes : RemoveNode(s, n)
  \/ \E c1 \in Clients, c2 \in Clients : SwitchClients(c1, c2)

SpecSwitch == Init /\ [][NextSwitch]_vars

\* The caller that lays out wide targets: it builds the tree of the hsplit,
\* the hsplit nested in it and the leaves, and places it on the rectangles of
\* LayoutRects.
NextLayout ==
  \/ \E n \in HSplits \cup Leaves : SetChild(n)
  \/ \E s \in Containers \ VSplits, n \in Objects \ VSplits, atEnd \in BOOLEAN :
       AddNode(s, n, atEnd)
  \/ \E s \in Containers \ VSplits, n \in Objects \ VSplits : RemoveNode(s, n)
  \/ \E rect \in LayoutRects : Place(rect)

SpecLayout == Init /\ [][NextLayout]_vars

\* the proportions the caller of SpecMisuse sets: one half
SetProportions == {FDivInt(fullPortion, 2)}

\* The caller that uses the setters of the node interface itself and misuses
\* the containers: it sets proportions and parents, and removes nodes from
\* containers that do not hold them.
NextMisuse ==
  \/ \E n \in Nodes : SetChild(n)
  \/ \E s \in Splits, n \in Nodes, atEnd \in BOOLEAN : AddNode(s, n, atEnd)
  \/ \E s \in Splits, n \in Nodes : RemoveNode(s, n)
  \/ \E s \in Splits, n \in Nodes : RemoveNodeNotChild(s, n)
  \/ \E n \in Nodes, p \in SetProportions : SetProportion(n, p)
  \/ \E n \in Nodes, p \in Splits : SetParent(n, p)

SpecMisuse == Init /\ [][NextMisuse]_vars

\* The caller that looks clients up in trees in which several leaves may hold
\* the same client.
NextFind ==
  \/ \E n \in Nodes : SetChild(n)
  \/ \E s \in Splits, n \in Nodes, atEnd \in BOOLEAN : AddNode(s, n, atEnd)
  \/ \E s \in Splits, n \in Nodes : RemoveNode(s, n)
  \/ \E c \in Clients : FindLeaf(c)

SpecFind == InitFind /\ [][NextFind]_vars

\* The caller that fills one container, the hsplit at the root, with up to
\* MaxShares children (leaves and empty containers) and empties it again.
NextShares ==
  \/ \E n \in HSplits : SetChild(n)
  \/ \E s \in HSplits, n \in Objects, atEnd \in BOOLEAN :
       AddNodeUpTo(s, n, atEnd, MaxShares)
  \/ \E s \in HSplits, n \in Objects : RemoveNode(s, n)

SpecShares == Init /\ [][NextShares]_vars

(***************************************************************************)
(* Helpers of the properties: exact arithmetic and the layout of a tree.   *)
(***************************************************************************)
\* x + y without rounding
ExactAdd(x, y) ==
  IF x.neg = y.neg THEN Float(x.neg, AddMag(x.mag, y.mag))
  ELSE IF CmpMag(x.mag, y.mag) >= 0 THEN Float(x.neg, SubMag(x.mag, y.mag))
  ELSE Float(y.neg, SubMag(y.mag, x.mag))

\* |x - y| < 1/10000, exactly
Within(x, y) == CmpMag(MulMag(ExactAdd(x, FNeg(y)).mag, 10000), IntMag(1)) < 0

\* the exact sum of the proportions of the children kids[i..]
RECURSIVE ExactSum(_, _)
ExactSum(kids, i) ==
  IF i > Len(kids) THEN zeroProp ELSE ExactAdd(prop[kids[i]], ExactSum(kids, i + 1))

\* the leaves below n in depth-first order, children in sequence order
RECURSIVE LeavesOf(_)
RECURSIVE LeavesOfSeq(_)
LeavesOfSeq(kids) ==
  IF kids = <<>> THEN <<>> ELSE LeavesOf(Head(kids)) \o LeavesOfSeq(Tail(kids))
LeavesOf(n) == IF IsLeaf(n) THEN <<n>> ELSE LeavesOfSeq(children[n])
\* the leaves of the tree
TreeLeaves == IF root = Nil THEN <<>> ELSE LeavesOf(root)

\* the pixels of size given to the children before the i-th
RECURSIVE OffsetOf(_, _, _)
OffsetOf(kids, i, size) ==
  IF i = 1 THEN 0
  ELSE OffsetOf(kids, i - 1, size) + portion(prop[kids[i - 1]], size)

\* the rectangle each leaf below n is allotted when n is allotted (x, y, w, h):
\* the leaves in depth-first order, each with its rectangle
RECURSIVE LeafBoxes(_, _, _, _, _)
RECURSIVE ChildBoxes(_, _, _, _, _, _)
ChildBoxes(n, i, x, y, w, h) ==
  IF i > Len(children[n]) THEN <<>>
  ELSE LET kid == children[n][i]
           box == IF IsHSplit(n)
                  THEN <<x + OffsetOf(children[n], i, w), y, portion(prop[kid], w), h>>
                  ELSE <<x, y + OffsetOf(children[n], i, h), w, portion(prop[kid], h)>>
       IN  LeafBoxes(kid, box[1], box[2], box[3], box[4])
             \o ChildBoxes(n, i + 1, x, y, w, h)
LeafBoxes(n, x, y, w, h) ==
  IF IsLeaf(n) THEN <<[leaf |-> n, rect |-> <<x, y, w, h>>]>>
  ELSE ChildBoxes(n, 1, x, y, w, h)

\* the leaves of the tree with the rectangles a target rectangle allots them
TreeBoxes(rect) ==
  IF root = Nil THEN <<>> ELSE LeafBoxes(root, rect[1], rect[2], rect[3], rect[4])

\* every leaf of the tree is allotted at least 1x1 and at most the target's size
AllLeavesFit(rect) ==
  \A i \in 1..Len(TreeBoxes(rect)) :
    LET b == TreeBoxes(rect)[i].rect
    IN  1 <= b[3] /\ b[3] <= rect[3] /\ 1 <= b[4] /\ b[4] <= rect[4]

\* the least width and height in which every leaf below n gets 1x1
RECURSIVE MinW(_)
RECURSIVE MinH(_)
RECURSIVE SumOver(_, _, _)
RECURSIVE MaxOver(_, _, _)
SumOver(kids, i, wide) ==
  IF i > Len(kids) THEN 0
  ELSE (IF wide THEN MinW(kids[i]) ELSE MinH(kids[i])) + SumOver(kids, i + 1, wide)
MaxOver(kids, i, wide) ==
  IF i > Len(kids) THEN 0
  ELSE LET a == IF wide THEN MinW(kids[i]) ELSE MinH(kids[i])
           b == MaxOver(kids, i + 1, wide)
       IN  IF a > b THEN a ELSE b
MinW(n) == IF IsLeaf(n) THEN 1
           ELSE IF IsHSplit(n) THEN SumOver(children[n], 1, TRUE)
           ELSE MaxOver(children[n], 1, TRUE)
MinH(n) == IF IsLeaf(n) THEN 1
           ELSE IF IsVSplit(n) THEN SumOver(children[n], 1, FALSE)
           ELSE MaxOver(children[n], 1, FALSE)

(***************************************************************************)
(* Properties.                                                             *)
(***************************************************************************)
\* C1: after every addNode and removeNode the call has returned (no panic),
\* and in every container that has a child the exact sum of the children's
\* proportions is within 1e-4 of 1.
C1_SumToOne ==
  /\ err = "none"
  /\ \A s \in Splits :
       Len(children[s]) > 0 => Within(ExactSum(children[s], 1), fullPortion)

\* C1 witness: an insertion made a container of three children whose
\* proportions, rounded, are not all the same float
C1_Witness ==
  /\ last.op = "addNode"
  /\ Len(children[last.node]) = 3
  /\ \E m \in Range(children[last.node]) : prop[m] # prop[last.arg]

\* C2: place is all-or-nothing.  After a place call on a tree in which some
\* leaf is allotted less than 1x1 or more than the target, no call was made on
\* any client; and calls on clients are made only by a place call in which
\* every leaf of the tree fits.
C2_PlaceAllOrNothing ==
  /\ last.op = "place" /\ root # Nil /\ ~AllLeavesFit(last.rect) => calls = <<>>
  /\ calls # <<>> => last.op = "place" /\ root # Nil /\ AllLeavesFit(last.rect)

\* C2 witness: a place call was rejected on a tree of at least two leaves
C2_Witness ==
  /\ last.op = "place" /\ ~last.ok
  /\ Len(TreeLeaves) >= 2
  /\ ~AllLeavesFit(last.rect)
  /\ calls = <<>>

\* C3: after a place call on a target narrower or lower than the leaves'
\* minimum sizes (1x1 each) need together, no call was made on any client.
C3_TooSmallRejected ==
  last.op = "place" /\ root # Nil
    /\ (last.rect[3] < MinW(root) \/ last.rect[4] < MinH(root))
    => calls = <<>>

\* C4: every child in a container's child sequence has that container as its
\* parent.
C4_ChildParentConsistent ==
  \A s \in Splits : \A n \in Range(children[s]) : parent[n] = s

\* C5: an addNode immediately followed by the removeNode of the same node
\* leaves the container's child sequence as it was before the insertion, and
\* every child's proportion within 1e-4 of what it was.
C5_AddRemoveInverse ==
  snap.undone =>
    /\ children[snap.s] = snap.kids
    /\ \A i \in 1..Len(snap.kids) : Within(prop[snap.kids[i]], snap.props[i])

\* C5 witness: a node was added to a container of two children, which made
\* their proportions thirds, and removed again
C5_Witness ==
  /\ snap.undone
  /\ last.op = "removeNode" /\ last.ok
  /\ last.node = snap.s /\ last.arg = snap.n
  /\ Len(snap.kids) = 2

\* C6: an addNode on a container of k children gives the new node the
\* proportion 1/(k+1) and takes (1/(k+1))/k from every child the container
\* had; with k = 0 the new node gets exactly 1 and no proportion but its own
\* changes.
C6_AddNodeArithmetic ==
  [][last'.op = "addNode" =>
       LET s == last'.node
           n == last'.arg
           k == Len(children[s])
           share == FDivInt(FloatOfInt(1), k + 1)
       IN  /\ prop'[n] = share
           /\ k = 0 => /\ prop'[n] = FloatOfInt(1)
                       /\ \A m \in Nodes \ {n} : prop'[m] = prop[m]
           /\ k > 0 => \A m \in Nodes \ {n} :
                         prop'[m] = IF m \in Range(children[s])
                                    THEN FSub(prop[m], FDivInt(share, k))
                                    ELSE prop[m]]_vars

\* C6 witness: a node was added to a container of two children
C6_Witness ==
  /\ last.op = "addNode" /\ last.ok
  /\ Len(children[last.node]) = 3

\* the client c after c1 and c2 changed places
Swapped(c, c1, c2) == IF c = c1 THEN c2 ELSE IF c = c2 THEN c1 ELSE c

\* C7: a switchClients(c1, c2) with both clients held by leaves of the tree
\* exchanges the clients of those two leaves and changes no other leaf, no
\* child sequence, no proportion, no parent and not the root; afterwards
\* findLeaf(c1) is the leaf that held c2 and findLeaf(c2) the leaf that held
\* c1, and a place makes the calls it would have made before with c1 and c2
\* exchanged.
C7_SwitchClients ==
  [][last'.op = "switchClients" =>
       \A c1 \in Clients, c2 \in Clients :
         SwitchClients(c1, c2) /\ findLeaf(c1) # Nil /\ findLeaf(c2) # Nil =>
           LET lf1 == findLeaf(c1)
               lf2 == findLeaf(c2)
           IN  /\ client'[lf1] = c2 /\ client'[lf2] = c1
               /\ \A lf \in Leaves \ {lf1, lf2} : client'[lf] = client[lf]
               /\ UNCHANGED <<root, parent, children, prop>>
               /\ findLeaf(c1)' = lf2 /\ findLeaf(c2)' = lf1
               /\ \A rect \in Rects, cl \in {client'} :
                    \A before \in {place(client, rect).calls},
                       after \in {place(cl, rect).calls} :
                      /\ Len(after) = Len(before)
                      /\ \A i \in 1..Len(before) :
                           after[i] = [before[i] EXCEPT !.c = Swapped(@, c1, c2)]]_vars

\* C7 witness: two clients of a tree of three leaves changed places
C7_Witness ==
  /\ last.op = "switchClients" /\ last.ok
  /\ Len(TreeLeaves) = 3
  /\ \E lf \in Leaves : client[lf] # lf[2]

\* C8: a switchClients(c1, c2) with c1 or c2 held by no leaf of the tree
\* raises no error and changes no leaf's client, no child sequence, no
\* proportion, no parent and not the root.
C8_SwitchMissingNoOp ==
  [][last'.op = "switchClients" =>
       \A c1 \in Clients, c2 \in Clients :
         SwitchClients(c1, c2) /\ (findLeaf(c1) = Nil \/ findLeaf(c2) = Nil) =>
           /\ err' = "none"
           /\ UNCHANGED <<client, root, parent, children, prop>>]_vars

\* C8 witness: a switchClients was called with a client missing on a tree that
\* holds some clients and not others
C8_Witness ==
  /\ last.op = "switchClients" /\ ~last.ok
  /\ Len(TreeLeaves) \in 1..(MaxLeaves - 1)

\* the first leaf of a sequence of leaves that holds the client c, or Nil
RECURSIVE FirstHolding(_, _)
FirstHolding(lvs, c) ==
  IF lvs = <<>> THEN Nil
  ELSE IF client[Head(lvs)] = c THEN Head(lvs)
  ELSE FirstHolding(Tail(lvs), c)

\* C9: findLeaf(c) returns the first leaf in depth-first order that holds c,
\* Nil when no leaf of the tree holds c or the tree has no child, and changes
\* nothing in the tree.
C9_FindLeafFirst ==
  [][last'.op = "findLeaf" =>
       \A c \in Clients :
         FindLeaf(c) =>
           /\ last'.res = FirstHolding(TreeLeaves, c)
           /\ UNCHANGED <<root, parent, children, prop, client>>]_vars

\* C9 witness: findLeaf returned the second leaf of a tree of three leaves,
\* where the third leaf holds the same client and the first another one
C9_Witness ==
  /\ last.op = "findLeaf"
  /\ Len(TreeLeaves) = 3
  /\ last.res = TreeLeaves[2]
  /\ client[TreeLeaves[3]] = client[TreeLeaves[2]]
  /\ client[TreeLeaves[1]] # client[TreeLeaves[2]]

\* C10: in every place call each MoveResize on a client comes right after a
\* FrameTile on the same client, and the MoveResize calls are, leaf by leaf in
\* depth-first order, the rectangles the leaves are allotted.
C10_FrameTileThenMoveResize ==
  last.op = "place" =>
    LET moves == SelectSeq(calls, LAMBDA c : c.op = "MoveResize")
        boxes == TreeBoxes(last.rect)
    IN  /\ \A i \in 1..Len(calls) :
             calls[i].op = "MoveResize" =>
               i > 1 /\ calls[i - 1] = FrameTileCall(calls[i].c)
        /\ last.ok =>
             /\ Len(calls) = 2 * Len(boxes)
             /\ Len(moves) = Len(boxes)
             /\ \A i \in 1..Len(boxes) :
                  moves[i] = [op |-> "MoveResize", c |-> client[boxes[i].leaf],
                              rect |-> boxes[i].rect]

\* C10 witness: a place call placed three leaves
C10_Witness ==
  /\ last.op = "place" /\ last.ok
  /\ Len(TreeLeaves) = 3
  /\ Len(calls) = 6

\* the rectangle a split n allotted (x, y, w, h) gives its i-th child: the
\* offset along its axis is what the children before got, the extent the
\* child's rounded share, the other axis is inherited
ChildRect(n, i, x, y, w, h) ==
  IF IsHSplit(n)
  THEN <<x + OffsetOf(children[n], i, w), y, portion(prop[children[n][i]], w), h>>
  ELSE <<x, y + OffsetOf(children[n], i, h), w, portion(prop[children[n][i]], h)>>

\* the sequences seqs[i..] one after the other
RECURSIVE Flatten(_, _)
Flatten(seqs, i) == IF i > Len(seqs) THEN <<>> ELSE seqs[i] \o Flatten(seqs, i + 1)

\* C11: MoveResize(x, y, W, H) on a split is MoveResize on each child in
\* sequence order, child i of an hsplit with (x + the widths allotted to the
\* children before it, y, its rounded share of W, H), child i of a vsplit with
\* (x, y + the heights allotted before it, W, its rounded share of H).  Checked
\* on every container for the target of every place call.
C11_SplitGeometry ==
  last.op = "place" =>
    \A s \in Splits :
      LET r == last.rect
          each == [i \in 1..Len(children[s]) |->
                     LET b == ChildRect(s, i, r[1], r[2], r[3], r[4])
                     IN  MoveResize(client, children[s][i], b[1], b[2], b[3], b[4])]
      IN  MoveResize(client, s, r[1], r[2], r[3], r[4]) = Flatten(each, 1)

\* C11 witness: a place call placed an hsplit whose second child is a vsplit
\* of two leaves and comes after a leaf
C11_Witness ==
  /\ last.op = "place" /\ last.ok
  /\ root \in HSplits
  /\ Len(children[root]) >= 2
  /\ IsLeaf(children[root][1])
  /\ IsVSplit(children[root][2])
  /\ Len(children[children[root][2]]) = 2

\* the sum of the widths of the MoveResize calls cs[i..]
RECURSIVE SumWidths(_, _)
SumWidths(cs, i) ==
  IF i > Len(cs) THEN 0
  ELSE (IF cs[i].op = "MoveResize" THEN cs[i].rect[3] ELSE 0) + SumWidths(cs, i + 1)

\* C12: for an hsplit of N leaves, each of proportion 1/N (up to rounding),
\* and a target of width W, the widths MoveResize allots to the children sum
\* to W give or take N.
C12_EqualSharesSum ==
  last.op = "place" /\ root \in HSplits /\ children[root] # <<>>
    /\ (\A m \in Range(children[root]) :
          IsLeaf(m) /\ Within(prop[m], FDivInt(fullPortion, Len(children[root]))))
    => LET r == last.rect
           n == Len(children[root])
           sum == SumWidths(MoveResize(client, root, r[1], r[2], r[3], r[4]), 1)
       IN  sum - r[3] <= n /\ r[3] - sum <= n

\* C12 witness: three leaves were allotted 2 + 2 + 2 pixels of a width of 5
C12_Witness ==
  /\ last.op = "place" /\ last.ok
  /\ root \in HSplits
  /\ Len(children[root]) = 3
  /\ \A m \in Range(children[root]) : IsLeaf(m)
  /\ last.rect[3] = 5
  /\ SumWidths(calls, 1) = 6

\* C13: in the hsplit set as the tree's child, a leaf X added to the empty
\* hsplit has proportion 1; after a leaf Y was added at the end X and Y have
\* proportion 1/2 each, X before Y; and place on (0, 0, 100, 50) then calls
\* MoveResize(0, 0, 50, 50) on X's client and MoveResize(50, 0, 50, 50) on
\* Y's, each after a FrameTile.  With nothing removed, the hsplit holds X, or
\* X before Y, only after these calls.
C13_Scenario ==
  LET hs == <<"hsplit", 1>>
      X == <<"leaf", 1>>
      Y == <<"leaf", 2>>
  IN  root = hs /\ removed = {} =>
        /\ children[hs] = <<X>> => prop[X] = FloatOfInt(1)
        /\ children[hs] = <<X, Y>> =>
             /\ prop[X] = FDivInt(FloatOfInt(1), 2)
             /\ prop[Y] = FDivInt(FloatOfInt(1), 2)
             /\ last.op = "place" /\ last.rect = <<0, 0, 100, 50>> =>
                  calls = <<FrameTileCall(client[X]),
                            MoveResizeCall(client[X], 0, 0, 50, 50),
                            FrameTileCall(client[Y]),
                            MoveResizeCall(client[Y], 50, 0, 50, 50)>>

\* C13 witness: the scenario was run to its end
C13_Witness ==
  /\ root = <<"hsplit", 1>> /\ removed = {}
  /\ children[<<"hsplit", 1>>] = <<(<<"leaf", 1>>), (<<"leaf", 2>>)>>
  /\ last.op = "place" /\ last.ok
  /\ last.rect = <<0, 0, 100, 50>>
  /\ Len(calls) = 4

\* C14: an addNode or removeNode that fails the sum-to-one check leaves the
\* children and the proportions as they were before the call.
C14_FailureAtomic ==
  [][err' = "portions" => children' = children /\ prop' = prop]_vars

\* C15: removeNode(n) on a container that does not hold n ends in the
\* 'not in the split' failure, with the children and the proportions as they
\* were.
C15_RemoveNotChild ==
  [][last'.op = "removeNode" /\ last'.arg \notin Range(children[last'.node])
       => err' = "notchild" /\ children' = children /\ prop' = prop]_vars

\* C15 witness: a removeNode failed on a container that holds two other nodes
C15_Witness ==
  /\ err = "notchild"
  /\ last.op = "removeNode"
  /\ Len(children[last.node]) = 2
  /\ last.arg \notin Range(children[last.node])

\* C16: removeNode(n) on the container holding n takes exactly n's entry out
\* of the children and keeps the order of the others; every remaining child
\* gains n's proportion divided by the number of remaining children; when
\* none remains nothing is redistributed or checked and the call cannot fail;
\* n's own proportion stays as it was.
C16_RemoveNodeArithmetic ==
  [][last'.op = "removeNode" /\ last'.arg \in Range(children[last'.node]) =>
       LET s == last'.node
           n == last'.arg
           old == children[s]
           new == children'[s]
           k == Len(new)
       IN  /\ \E i \in 1..Len(old) :
                /\ old[i] = n
                /\ new = SubSeq(old, 1, i - 1) \o SubSeq(old, i + 1, Len(old))
           /\ \A c \in Containers \ {s} : children'[c] = children[c]
           /\ prop'[n] = prop[n]
           /\ \A m \in Range(new) :
                prop'[m] = FAdd(prop[m], FDivInt(prop[n], k))
           /\ \A m \in Objects \ Range(new) : prop'[m] = prop[m]
           /\ k = 0 => err' = "none"
    ]_vars

\* C16 witness: one of three children was removed and the two others gained
\* half of its proportion each, which it still has
C16_Witness ==
  /\ last.op = "removeNode" /\ last.ok
  /\ Len(children[last.node]) = 2
  /\ last.arg \notin Range(children[last.node])
  /\ prop[last.arg] # zeroProp

\* the position of the first leaf of lvs[i..] that is in stop, 0 when none is
RECURSIVE FirstStop(_, _, _)
FirstStop(lvs, i, stop) ==
  IF i > Len(lvs) THEN 0
  ELSE IF lvs[i] \in stop THEN i
  ELSE FirstStop(lvs, i + 1, stop)

\* C17: VisitLeafNodes on any node of the tree, with a predicate that is
\* false on the leaves of stop: when a leaf below the node is in stop, the
\* leaves visited are those in depth-first order up to and including the first
\* one in stop, no leaf after it, and the node (so every container around that
\* leaf) returns false; when none is, every leaf below the node is visited
\* once in depth-first order and the node returns true.
C17_VisitShortCircuit ==
  \A n \in Objects : InTree(n) =>
    \A stop \in SUBSET Leaves :
      LET lvs == LeavesOf(n)
          f == FirstStop(lvs, 1, stop)
          r == VisitLeafNodes(n, stop)
      IN  IF f > 0
          THEN r.visited = SubSeq(lvs, 1, f) /\ ~r.cont
          ELSE r.visited = lvs /\ r.cont

\* C17 witness: the predicate is false on the second leaf of a container nested
\* in the root container, which has a leaf after it, so the visit stops inside
\* the inner container and both containers return false
C17_Witness ==
  /\ root \in HSplits
  /\ Len(children[root]) = 2
  /\ IsSplit(children[root][1]) \/ children[root][1] = InnerHSplit
  /\ Len(children[children[root][1]]) = 2
  /\ IsLeaf(children[root][2])
  /\ LET stop == {children[children[root][1]][2]}
     IN  /\ ~VisitLeafNodes(children[root][1], stop).cont
         /\ ~VisitLeafNodes(root, stop).cont
         /\ Len(VisitLeafNodes(root, stop).visited) = 2

\* C18 as stated: in every state reached by addNode and removeNode alone,
\* all n children of a container have the same proportion 1/n, so that none
\* is negative or zero and none exceeds 1.
C18_SameProportion ==
  \A s \in Containers : \A m \in Range(children[s]) :
    /\ prop[m] = FDivInt(fullPortion, Len(children[s]))
    /\ FLess(zeroProp, prop[m])
    /\ ~FLess(fullPortion, prop[m])

\* |x - y| <= 2^-51, two units in the last place of 1.0, exactly
Near(x, y) == CmpMag(ExactAdd(x, FNeg(y)).mag, Pow2Mag(24)) <= 0

\* C18, amended: in every state reached by addNode and removeNode alone, the
\* proportion of each of the n children of a container is 1/n up to the
\* rounding error of float64 (here at most 2^-51); so no proportion is
\* negative or zero, and none exceeds 1 by more than that error.
C18_NearlySameProportion ==
  \A s \in Containers : \A m \in Range(children[s]) :
    /\ Near(prop[m], FDivInt(fullPortion, Len(children[s])))
    /\ FLess(zeroProp, prop[m])
    /\ ~FLess(FAdd(fullPortion, Float(FALSE, Pow2Mag(24))), prop[m])

\* C18 witness: after four children were added and three removed, the one
\* child left has a proportion above 1
C18_Witness ==
  \E s \in Containers :
    /\ Len(children[s]) = 1
    /\ Cardinality(removed) = 3
    /\ FLess(fullPortion, prop[children[s][1]])
    /\ err = "none"

\* the MoveResize calls among the window-system calls of the last operation
Moves == SelectSeq(calls, LAMBDA c : c.op = "MoveResize")

\* C19: after a place that passed the validity check, the rectangle of every
\* leaf is at least 1x1 and lies inside the target rectangle.
C19_LeavesInsideTarget ==
  last.op = "place" /\ last.ok =>
    \A i \in 1..Len(Moves) :
      LET t == last.rect
          r == Moves[i].rect
      IN  /\ 1 <= r[3] /\ 1 <= r[4]
          /\ t[1] <= r[1] /\ t[2] <= r[2]
          /\ r[1] + r[3] <= t[1] + t[3]
          /\ r[2] + r[4] <= t[2] + t[4]

\* the rectangles r1 and r2 have a pixel in common
Overlap(r1, r2) ==
  /\ r1[1] < r2[1] + r2[3] /\ r2[1] < r1[1] + r1[3]
  /\ r1[2] < r2[2] + r2[4] /\ r2[2] < r1[2] + r1[4]

\* C20: after a place that passed the validity check, MoveResize was called
\* exactly once for every leaf of the tree, in depth-first order, and the
\* rectangles of two distinct leaves do not overlap.
C20_OneMoveNoOverlap ==
  last.op = "place" /\ last.ok =>
    /\ Len(Moves) = Len(TreeLeaves)
    /\ \A i \in 1..Len(Moves) : Moves[i].c = client[TreeLeaves[i]]
    /\ \A i \in 1..Len(Moves) : \A j \in 1..Len(Moves) :
         i # j => ~Overlap(Moves[i].rect, Moves[j].rect)

====
